---- MODULE Spec2Model ----
(***************************************************************************)
(* LLDAP administrative control plane: the GraphQL mutation commands of    *)
(* server/src/infra/graphql/mutation.rs and the start-up sequence of       *)
(* server/src/main.rs, over an abstract BackendHandler store.              *)
(***************************************************************************)
EXTENDS Integers, Sequences, FiniteSets, TLC

VARIABLES store, inflight, last, issued, boot

vars == <<store, inflight, last, issued, boot>>

\* ------------------------------------------------------------------ bounds
\* Number of command invocations issued in one behaviour.
MaxCmds == 2
\* Number of process starts in one behaviour.
MaxRuns == 2

\* ------------------------------------------------------------ input domains
UserIds == {"admin", "bob"}
UserDisplayNames == {"Bob"}
GroupNameInputs == {"lldap_admin", "staff"}
NoName == "<none>"
Avatars == {"none", "bad_base64", "not_jpeg", "jpeg"}
GroupIds == {1, 2, 4}
Slots == 1..MaxCmds
Contexts == [user : UserIds, is_admin : BOOLEAN]

\* The three baseline groups, in the order set_up_server ensures them.
BaselineGroups == <<"lldap_admin", "lldap_password_manager", "lldap_strict_readonly">>
\* config.ldap_user_dn
AdminDn == "admin"
\* GroupId the mutation commands protect.
AdminGroupId == 1
\* Minimum length of config.ldap_user_pass.
MinPassLength == 8

\* --------------------------------------------------------- backend (store)
EmptyStore ==
    [users |-> <<>>, passwords |-> {}, groups |-> <<>>, memberships |-> {},
     next_group_id |-> 1]

UserExists(db, u) == u \in DOMAIN db.users
GroupExists(db, g) == g \in DOMAIN db.groups

Restrict(f, S) == [x \in S |-> f[x]]

BackendOk(db, val) == [ok |-> TRUE, db |-> db, val |-> val]
BackendErr(db) == [ok |-> FALSE, db |-> db, val |-> 0]

be_create_user(db, u, name, fault) ==
    IF fault \/ UserExists(db, u) THEN BackendErr(db)
    ELSE BackendOk([db EXCEPT !.users = [x \in DOMAIN db.users \cup {u} |->
                                          IF x = u THEN name ELSE db.users[x]]], 0)

be_get_user_details(db, u, fault) ==
    IF fault \/ ~UserExists(db, u) THEN BackendErr(db) ELSE BackendOk(db, db.users[u])

be_update_user(db, u, name, fault) ==
    IF fault \/ ~UserExists(db, u) THEN BackendErr(db)
    ELSE BackendOk([db EXCEPT !.users[u] = name], 0)

be_delete_user(db, u, fault) ==
    IF fault \/ ~UserExists(db, u) THEN BackendErr(db)
    ELSE BackendOk([db EXCEPT !.users = Restrict(db.users, DOMAIN db.users \ {u}),
                              !.passwords = db.passwords \ {u},
                              !.memberships = {m \in db.memberships : m[1] # u}], 0)

be_create_group(db, name, fault) ==
    IF fault THEN BackendErr(db)
    ELSE BackendOk([db EXCEPT !.groups = [g \in DOMAIN db.groups \cup {db.next_group_id} |->
                                           IF g = db.next_group_id THEN name ELSE db.groups[g]],
                              !.next_group_id = db.next_group_id + 1],
                   db.next_group_id)

be_get_group_details(db, g, fault) ==
    IF fault \/ ~GroupExists(db, g) THEN BackendErr(db) ELSE BackendOk(db, db.groups[g])

be_update_group(db, g, name, fault) ==
    IF fault \/ ~GroupExists(db, g) THEN BackendErr(db)
    ELSE BackendOk([db EXCEPT !.groups[g] = IF name = NoName THEN @ ELSE name], 0)

be_delete_group(db, g, fault) ==
    IF fault \/ ~GroupExists(db, g) THEN BackendErr(db)
    ELSE BackendOk([db EXCEPT !.groups = Restrict(db.groups, DOMAIN db.groups \ {g}),
                              !.memberships = {m \in db.memberships : m[2] # g}], 0)

be_add_user_to_group(db, u, g, fault) ==
    IF fault \/ ~UserExists(db, u) \/ ~GroupExists(db, g) THEN BackendErr(db)
    ELSE BackendOk([db EXCEPT !.memberships = @ \cup {<<u, g>>}], 0)

be_remove_user_from_group(db, u, g, fault) ==
    IF fault \/ <<u, g>> \notin db.memberships THEN BackendErr(db)
    ELSE BackendOk([db EXCEPT !.memberships = @ \ {<<u, g>>}], 0)

be_list_groups(db, name, fault) ==
    IF fault THEN [ok |-> FALSE, db |-> db, val |-> {}]
    ELSE BackendOk(db, {g \in DOMAIN db.groups : db.groups[g] = name})

register_password(db, u, fault) ==
    IF fault \/ ~UserExists(db, u) THEN BackendErr(db)
    ELSE BackendOk([db EXCEPT !.passwords = @ \cup {u}], 0)

\* ------------------------------------------------- capability context
is_admin(ctx) == ctx.is_admin
can_write(ctx, target) == ctx.user = target \/ ctx.is_admin

\* ------------------------------------------------- avatar validation
\* base64::decode of the optional avatar string: TRUE when it decodes.
base64_decodes(avatar) == avatar # "bad_base64"
\* JpegPhoto::try_from of the decoded bytes: TRUE when they are a JPEG.
is_jpeg(avatar) == avatar = "jpeg"
\* The error of the avatar pipeline, or "ok".
decode_avatar(avatar) ==
    IF avatar = "none" THEN "ok"
    ELSE IF ~base64_decodes(avatar) THEN "Invalid base64 image"
    ELSE IF ~is_jpeg(avatar) THEN "Provided image is not a valid JPEG"
    ELSE "ok"

\* ------------------------------------------------- command handlers
\* What one handler step yields: the value returned to the caller ("" while
\* the handler is suspended before its next backend call), the backend
\* calls it made, and the store it leaves.
Call(op, ok) == [op |-> op, ok |-> ok]
Ret(result, calls, db) == [result |-> result, calls |-> calls, db |-> db]
BackendError == "BackendError"
Pending == ""

\* create_user that goes on to the re-fetch whatever handler.create_user returns.
create_user_begin_no_propagation(ctx, user_id, display_name, avatar, db, fault) ==
    IF ~is_admin(ctx) THEN Ret("Unauthorized user creation", <<>>, db)
    ELSE IF decode_avatar(avatar) # "ok" THEN Ret(decode_avatar(avatar), <<>>, db)
    ELSE LET r == be_create_user(db, user_id, display_name, fault) IN
         Ret(Pending, <<Call("create_user", r.ok)>>, r.db)

\* create_user up to the await of handler.create_user.
create_user_begin(ctx, user_id, display_name, avatar, db, fault) ==
    IF ~is_admin(ctx) THEN Ret("Unauthorized user creation", <<>>, db)
    ELSE IF decode_avatar(avatar) # "ok" THEN Ret(decode_avatar(avatar), <<>>, db)
    ELSE LET r == be_create_user(db, user_id, display_name, fault) IN
         IF r.ok THEN Ret(Pending, <<Call("create_user", TRUE)>>, r.db)
         ELSE Ret(BackendError, <<Call("create_user", FALSE)>>, db)

\* create_user from the return of handler.create_user to the end.
create_user_fetch(user_id, db, fault) ==
    LET r == be_get_user_details(db, user_id, fault) IN
    IF r.ok THEN Ret("User", <<Call("get_user_details", TRUE)>>, db)
    ELSE Ret(BackendError, <<Call("get_user_details", FALSE)>>, db)

\* create_group up to the await of handler.create_group.
create_group_begin(ctx, name, db, fault) ==
    IF ~is_admin(ctx) THEN Ret("Unauthorized group creation", <<>>, db)
    ELSE LET r == be_create_group(db, name, fault) IN
         IF r.ok THEN Ret(Pending, <<Call("create_group", TRUE)>>, r.db)
         ELSE Ret(BackendError, <<Call("create_group", FALSE)>>, db)

\* create_group from the return of handler.create_group to the end.
create_group_fetch(group_id, db, fault) ==
    LET r == be_get_group_details(db, group_id, fault) IN
    IF r.ok THEN Ret("Group", <<Call("get_group_details", TRUE)>>, db)
    ELSE Ret(BackendError, <<Call("get_group_details", FALSE)>>, db)

\* update_user that decodes the avatar before it checks the capability.
update_user_validates_first(ctx, user_id, display_name, avatar, db, fault) ==
    IF decode_avatar(avatar) # "ok" THEN Ret(decode_avatar(avatar), <<>>, db)
    ELSE IF ~can_write(ctx, user_id) THEN Ret("Unauthorized user update", <<>>, db)
    ELSE LET r == be_update_user(db, user_id, display_name, fault) IN
         IF r.ok THEN Ret("Success", <<Call("update_user", TRUE)>>, r.db)
         ELSE Ret(BackendError, <<Call("update_user", FALSE)>>, db)

\* update_user gated on is_admin alone.
update_user_admin_only(ctx, user_id, display_name, avatar, db, fault) ==
    IF ~is_admin(ctx) THEN Ret("Unauthorized user update", <<>>, db)
    ELSE IF decode_avatar(avatar) # "ok" THEN Ret(decode_avatar(avatar), <<>>, db)
    ELSE LET r == be_update_user(db, user_id, display_name, fault) IN
         IF r.ok THEN Ret("Success", <<Call("update_user", TRUE)>>, r.db)
         ELSE Ret(BackendError, <<Call("update_user", FALSE)>>, db)

update_user(ctx, user_id, display_name, avatar, db, fault) ==
    IF ~can_write(ctx, user_id) THEN Ret("Unauthorized user update", <<>>, db)
    ELSE IF decode_avatar(avatar) # "ok" THEN Ret(decode_avatar(avatar), <<>>, db)
    ELSE LET r == be_update_user(db, user_id, display_name, fault) IN
         IF r.ok THEN Ret("Success", <<Call("update_user", TRUE)>>, r.db)
         ELSE Ret(BackendError, <<Call("update_user", FALSE)>>, db)

\* update_group without the check on the admin group.
update_group_unguarded(ctx, group_id, display_name, db, fault) ==
    IF ~is_admin(ctx) THEN Ret("Unauthorized group update", <<>>, db)
    ELSE LET r == be_update_group(db, group_id, display_name, fault) IN
         IF r.ok THEN Ret("Success", <<Call("update_group", TRUE)>>, r.db)
         ELSE Ret(BackendError, <<Call("update_group", FALSE)>>, db)

update_group(ctx, group_id, display_name, db, fault) ==
    IF ~is_admin(ctx) THEN Ret("Unauthorized group update", <<>>, db)
    ELSE IF group_id = AdminGroupId THEN Ret("Cannot change admin group details", <<>>, db)
    ELSE LET r == be_update_group(db, group_id, display_name, fault) IN
         IF r.ok THEN Ret("Success", <<Call("update_group", TRUE)>>, r.db)
         ELSE Ret(BackendError, <<Call("update_group", FALSE)>>, db)

\* add_user_to_group without the capability check.
add_user_to_group_ungated(ctx, user_id, group_id, db, fault) ==
    LET r == be_add_user_to_group(db, user_id, group_id, fault) IN
    IF r.ok THEN Ret("Success", <<Call("add_user_to_group", TRUE)>>, r.db)
    ELSE Ret(BackendError, <<Call("add_user_to_group", FALSE)>>, db)

add_user_to_group(ctx, user_id, group_id, db, fault) ==
    IF ~is_admin(ctx) THEN Ret("Unauthorized group membership modification", <<>>, db)
    ELSE LET r == be_add_user_to_group(db, user_id, group_id, fault) IN
         IF r.ok THEN Ret("Success", <<Call("add_user_to_group", TRUE)>>, r.db)
         ELSE Ret(BackendError, <<Call("add_user_to_group", FALSE)>>, db)

\* remove_user_from_group without the self-demotion check.
remove_user_from_group_noself(ctx, user_id, group_id, db, fault) ==
    IF ~is_admin(ctx) THEN Ret("Unauthorized group membership modification", <<>>, db)
    ELSE LET r == be_remove_user_from_group(db, user_id, group_id, fault) IN
         IF r.ok THEN Ret("Success", <<Call("remove_user_from_group", TRUE)>>, r.db)
         ELSE Ret(BackendError, <<Call("remove_user_from_group", FALSE)>>, db)

remove_user_from_group(ctx, user_id, group_id, db, fault) ==
    IF ~is_admin(ctx) THEN Ret("Unauthorized group membership modification", <<>>, db)
    ELSE IF ctx.user = user_id /\ group_id = AdminGroupId
         THEN Ret("Cannot remove admin rights for current user", <<>>, db)
    ELSE LET r == be_remove_user_from_group(db, user_id, group_id, fault) IN
         IF r.ok THEN Ret("Success", <<Call("remove_user_from_group", TRUE)>>, r.db)
         ELSE Ret(BackendError, <<Call("remove_user_from_group", FALSE)>>, db)

\* delete_user without the self-deletion check.
delete_user_noself(ctx, user_id, db, fault) ==
    IF ~is_admin(ctx) THEN Ret("Unauthorized user deletion", <<>>, db)
    ELSE LET r == be_delete_user(db, user_id, fault) IN
         IF r.ok THEN Ret("Success", <<Call("delete_user", TRUE)>>, r.db)
         ELSE Ret(BackendError, <<Call("delete_user", FALSE)>>, db)

delete_user(ctx, user_id, db, fault) ==
    IF ~is_admin(ctx) THEN Ret("Unauthorized user deletion", <<>>, db)
    ELSE IF ctx.user = user_id THEN Ret("Cannot delete current user", <<>>, db)
    ELSE LET r == be_delete_user(db, user_id, fault) IN
         IF r.ok THEN Ret("Success", <<Call("delete_user", TRUE)>>, r.db)
         ELSE Ret(BackendError, <<Call("delete_user", FALSE)>>, db)

\* delete_group without the check on the admin group.
delete_group_unguarded(ctx, group_id, db, fault) ==
    IF ~is_admin(ctx) THEN Ret("Unauthorized group deletion", <<>>, db)
    ELSE LET r == be_delete_group(db, group_id, fault) IN
         IF r.ok THEN Ret("Success", <<Call("delete_group", TRUE)>>, r.db)
         ELSE Ret(BackendError, <<Call("delete_group", FALSE)>>, db)

\* delete_group that drops the backend's error instead of propagating it.
delete_group_ignores_error(ctx, group_id, db, fault) ==
    IF ~is_admin(ctx) THEN Ret("Unauthorized group deletion", <<>>, db)
    ELSE IF group_id = AdminGroupId THEN Ret("Cannot delete admin group", <<>>, db)
    ELSE LET r == be_delete_group(db, group_id, fault) IN
         Ret("Success", <<Call("delete_group", r.ok)>>, r.db)

delete_group(ctx, group_id, db, fault) ==
    IF ~is_admin(ctx) THEN Ret("Unauthorized group deletion", <<>>, db)
    ELSE IF group_id = AdminGroupId THEN Ret("Cannot delete admin group", <<>>, db)
    ELSE LET r == be_delete_group(db, group_id, fault) IN
         IF r.ok THEN Ret("Success", <<Call("delete_group", TRUE)>>, r.db)
         ELSE Ret(BackendError, <<Call("delete_group", FALSE)>>, db)

\* ------------------------------------------------- invocation records
NoUser == "-"
NoAvatar == "none"

\* One invocation: who called what with which target, the backend calls made
\* so far, whether it has changed the store, and the value returned.
Invocation(seq, cmd, ctx, user_id, group_id, avatar, calls, changed, result) ==
    [seq |-> seq, cmd |-> cmd, ctx |-> ctx, user_id |-> user_id, group_id |-> group_id,
     avatar |-> avatar, calls |-> calls, changed |-> changed, result |-> result]

NoContext == [user |-> NoUser, is_admin |-> FALSE]
NoInvocation == Invocation(0, "none", NoContext, NoUser, 0, NoAvatar, <<>>, FALSE, Pending)

Serving == boot.pc = "serving"
CanIssue == Serving /\ issued < MaxCmds

\* A handler that finishes within one step.
Complete(cmd, ctx, user_id, group_id, avatar, r) ==
    /\ store' = r.db
    /\ issued' = issued + 1
    /\ last' = Invocation(issued + 1, cmd, ctx, user_id, group_id, avatar, r.calls,
                           r.db # store, r.result)
    /\ UNCHANGED <<inflight, boot>>

\* A two-call handler: it finishes at once, or suspends; each invocation has
\* its own slot, numbered by its sequence number.
BeginOrComplete(s, cmd, ctx, user_id, group_id, avatar, r) ==
    /\ s = issued + 1
    /\ store' = r.db
    /\ issued' = issued + 1
    /\ IF r.result = Pending
       THEN /\ inflight' = [inflight EXCEPT ![s] =
                   Invocation(issued + 1, cmd, ctx, user_id, group_id, avatar, r.calls,
                              r.db # store, Pending)]
            /\ UNCHANGED last
       ELSE /\ last' = Invocation(issued + 1, cmd, ctx, user_id, group_id, avatar,
                                  r.calls, r.db # store, r.result)
            /\ UNCHANGED inflight
    /\ UNCHANGED boot

\* The second step of a two-call handler.
Finish(s, r) ==
    /\ store' = r.db
    /\ last' = [inflight[s] EXCEPT !.calls = @ \o r.calls,
                                   !.changed = @ \/ r.db # store,
                                   !.result = r.result]
    /\ inflight' = [inflight EXCEPT ![s] = NoInvocation]
    /\ UNCHANGED <<issued, boot>>

\* ------------------------------------------------- actions: commands
CreateUser ==
    \E s \in Slots, ctx \in Contexts, u \in UserIds, n \in UserDisplayNames,
       a \in Avatars, fault \in BOOLEAN :
        /\ CanIssue
        /\ BeginOrComplete(s, "create_user", ctx, u, 0, a,
                           create_user_begin(ctx, u, n, a, store, fault))

CreateUserFetch ==
    \E s \in Slots, fault \in BOOLEAN :
        /\ Serving
        /\ inflight[s].cmd = "create_user"
        /\ Finish(s, create_user_fetch(inflight[s].user_id, store, fault))

CreateGroup ==
    \E s \in Slots, ctx \in Contexts, n \in GroupNameInputs, fault \in BOOLEAN :
        /\ CanIssue
        /\ BeginOrComplete(s, "create_group", ctx, NoUser, store.next_group_id, NoAvatar,
                           create_group_begin(ctx, n, store, fault))

CreateGroupFetch ==
    \E s \in Slots, fault \in BOOLEAN :
        /\ Serving
        /\ inflight[s].cmd = "create_group"
        /\ Finish(s, create_group_fetch(inflight[s].group_id, store, fault))

UpdateUser ==
    \E ctx \in Contexts, u \in UserIds, n \in UserDisplayNames, a \in Avatars,
       fault \in BOOLEAN :
        /\ CanIssue
        /\ Complete("update_user", ctx, u, 0, a,
                    update_user(ctx, u, n, a, store, fault))

UpdateGroup ==
    \E ctx \in Contexts, g \in GroupIds, n \in GroupNameInputs \cup {NoName},
       fault \in BOOLEAN :
        /\ CanIssue
        /\ Complete("update_group", ctx, NoUser, g, NoAvatar,
                    update_group(ctx, g, n, store, fault))

AddUserToGroup ==
    \E ctx \in Contexts, u \in UserIds, g \in GroupIds, fault \in BOOLEAN :
        /\ CanIssue
        /\ Complete("add_user_to_group", ctx, u, g, NoAvatar,
                    add_user_to_group(ctx, u, g, store, fault))

RemoveUserFromGroup ==
    \E ctx \in Contexts, u \in UserIds, g \in GroupIds, fault \in BOOLEAN :
        /\ CanIssue
        /\ Complete("remove_user_from_group", ctx, u, g, NoAvatar,
                    remove_user_from_group(ctx, u, g, store, fault))

DeleteUser ==
    \E ctx \in Contexts, u \in UserIds, fault \in BOOLEAN :
        /\ CanIssue
        /\ Complete("delete_user", ctx, u, 0, NoAvatar,
                    delete_user(ctx, u, store, fault))

DeleteGroup ==
    \E ctx \in Contexts, g \in GroupIds, fault \in BOOLEAN :
        /\ CanIssue
        /\ Complete("delete_group", ctx, NoUser, g, NoAvatar,
                    delete_group(ctx, g, store, fault))

\* ------------------------------------------------- start-up (main.rs)
\* One process: where set_up_server / run_server stands (pc), the steps and
\* backend calls of this run in order (calls), and how earlier runs ended.
PassLengths == {MinPassLength - 1, MinPassLength}

BootRecord(pc, run, pass_len, idx, found, calls, faulted, outcomes, started_from) ==
    [pc |-> pc, run |-> run, pass_len |-> pass_len, idx |-> idx, found |-> found,
     calls |-> calls, faulted |-> faulted, outcomes |-> outcomes,
     started_from |-> started_from]

\* A step whose error is dropped instead of propagated with `?`.
Step_ignores_failure(op, ok, fault, next) ==
    boot' = [boot EXCEPT !.calls = Append(@, Call(op, ok)),
                         !.faulted = @ \/ fault,
                         !.pc = next]

\* A step of the run: log it, move on (or fail), and note an injected fault.
Step(op, ok, fault, next) ==
    boot' = [boot EXCEPT !.calls = Append(@, Call(op, ok)),
                         !.faulted = @ \/ fault,
                         !.pc = IF ok THEN next ELSE "failed"]

\* ensure_group_exists that creates the group whatever the lookup returns.
group_is_missing_always(found) == TRUE

\* ensure_group_exists creates the group iff the lookup by name is empty.
group_is_missing(found) == found = {}

\* set_up_server creates the admin user iff get_user_details returns Err.
admin_is_missing(r) == ~r.ok

\* create_admin_user without the length assertion.
pass_length_ok_always(pass_len) == TRUE

\* assert!(pass_length >= 8)
pass_length_ok(pass_len) == pass_len >= MinPassLength

\* assert_eq!(groups.len(), 1)
one_group_found(found) == Cardinality(found) = 1

\* groups[0].id: the lookup lists groups in id order.
first_group(found) == CHOOSE g \in found : \A h \in found : g <= h

\* What follows ensure_group_exists for the idx-th baseline group.
after_ensure(idx) == IF idx < Len(BaselineGroups) THEN "ensure_list" ELSE "get_admin"

StartProcess ==
    \E len \in PassLengths :
        /\ boot.pc = "stopped"
        /\ boot.run < MaxRuns
        /\ boot' = [boot EXCEPT !.pc = "connect", !.run = @ + 1, !.pass_len = len,
                                !.idx = 1, !.found = {}, !.calls = <<>>,
                                !.faulted = FALSE, !.started_from = store]
        /\ UNCHANGED <<store, inflight, last, issued>>

\* Database::connect(sql_opt).await?
Connect ==
    \E ok \in BOOLEAN :
        /\ boot.pc = "connect"
        /\ Step("connect", ok, ~ok, "init_table")
        /\ UNCHANGED <<store, inflight, last, issued>>

\* domain::sql_tables::init_table(&sql_pool)
InitTable ==
    \E ok \in BOOLEAN :
        /\ boot.pc = "init_table"
        /\ Step("init_table", ok, ~ok, "ensure_list")
        /\ UNCHANGED <<store, inflight, last, issued>>

\* ensure_group_exists: the lookup by display name.
EnsureGroupList ==
    \E fault \in BOOLEAN :
        /\ boot.pc = "ensure_list"
        /\ LET r == be_list_groups(store, BaselineGroups[boot.idx], fault) IN
           boot' = [boot EXCEPT !.calls = Append(@, Call("list_groups", r.ok)),
                                !.faulted = @ \/ fault,
                                !.pc = IF ~r.ok THEN "failed"
                                       ELSE IF group_is_missing(r.val) THEN "ensure_create"
                                       ELSE after_ensure(boot.idx),
                                !.idx = IF r.ok /\ ~group_is_missing(r.val) THEN @ + 1 ELSE @]
        /\ UNCHANGED <<store, inflight, last, issued>>

\* ensure_group_exists: the creation of a missing group.
EnsureGroupCreate ==
    \E fault \in BOOLEAN :
        /\ boot.pc = "ensure_create"
        /\ LET r == be_create_group(store, BaselineGroups[boot.idx], fault) IN
           /\ store' = r.db
           /\ boot' = [boot EXCEPT !.calls = Append(@, Call("create_group", r.ok)),
                                   !.faulted = @ \/ fault,
                                   !.pc = IF r.ok THEN after_ensure(boot.idx) ELSE "failed",
                                   !.idx = IF r.ok THEN @ + 1 ELSE @]
        /\ UNCHANGED <<inflight, last, issued>>

\* backend_handler.get_user_details(&config.ldap_user_dn)
GetAdminUser ==
    \E fault \in BOOLEAN :
        /\ boot.pc = "get_admin"
        /\ LET r == be_get_user_details(store, AdminDn, fault) IN
           boot' = [boot EXCEPT !.calls = Append(@, Call("get_user_details", r.ok)),
                                !.faulted = @ \/ fault,
                                !.pc = IF admin_is_missing(r) THEN "create_admin"
                                       ELSE "build_ldap"]
        /\ UNCHANGED <<store, inflight, last, issued>>

\* create_admin_user: the length assertion and handler.create_user.
CreateAdminUser ==
    \E fault \in BOOLEAN :
        /\ boot.pc = "create_admin"
        /\ IF ~pass_length_ok(boot.pass_len)
           THEN /\ boot' = [boot EXCEPT !.pc = "panicked"]
                /\ UNCHANGED store
           ELSE LET r == be_create_user(store, AdminDn, "Administrator", fault) IN
                /\ store' = r.db
                /\ Step("create_user", r.ok, fault, "register_password")
        /\ UNCHANGED <<inflight, last, issued>>

\* create_admin_user: register_password, chained on create_user's success.
RegisterPassword ==
    \E fault \in BOOLEAN :
        /\ boot.pc = "register_password"
        /\ LET r == register_password(store, AdminDn, fault) IN
           /\ store' = r.db
           /\ Step("register_password", r.ok, fault, "list_admin_group")
        /\ UNCHANGED <<inflight, last, issued>>

\* create_admin_user: the lookup of lldap_admin and the assertion on it.
ListAdminGroup ==
    \E fault \in BOOLEAN :
        /\ boot.pc = "list_admin_group"
        /\ LET r == be_list_groups(store, "lldap_admin", fault) IN
           boot' = [boot EXCEPT !.calls = Append(@, Call("list_groups", r.ok)),
                                !.faulted = @ \/ fault,
                                !.found = r.val,
                                !.pc = IF ~r.ok THEN "failed"
                                       ELSE IF ~one_group_found(r.val) THEN "panicked"
                                       ELSE "add_admin"]
        /\ UNCHANGED <<store, inflight, last, issued>>

\* create_admin_user: handler.add_user_to_group(&config.ldap_user_dn, groups[0].id)
AddAdminToGroup ==
    \E fault \in BOOLEAN :
        /\ boot.pc = "add_admin"
        /\ LET r == be_add_user_to_group(store, AdminDn, first_group(boot.found), fault) IN
           /\ store' = r.db
           /\ Step("add_user_to_group", r.ok, fault, "build_ldap")
        /\ UNCHANGED <<inflight, last, issued>>

\* build_ldap_server followed at once by build_tcp_server.
BuildLdapServer_then_tcp ==
    \E ok \in BOOLEAN :
        /\ boot.pc = "build_ldap"
        /\ Step("build_ldap_server", ok, ~ok, "build_tcp")
        /\ UNCHANGED <<store, inflight, last, issued>>

\* infra::ldap_server::build_ldap_server
BuildLdapServer ==
    \E ok \in BOOLEAN :
        /\ boot.pc = "build_ldap"
        /\ Step("build_ldap_server", ok, ~ok, "jwt_init")
        /\ UNCHANGED <<store, inflight, last, issued>>

\* infra::jwt_sql_tables::init_table(&sql_pool)
JwtInitTable ==
    \E ok \in BOOLEAN :
        /\ boot.pc = "jwt_init"
        /\ Step("jwt_init_table", ok, ~ok, "build_tcp")
        /\ UNCHANGED <<store, inflight, last, issued>>

\* infra::tcp_server::build_tcp_server
BuildTcpServer ==
    \E ok \in BOOLEAN :
        /\ boot.pc = "build_tcp"
        /\ Step("build_tcp_server", ok, ~ok, "scheduler")
        /\ UNCHANGED <<store, inflight, last, issued>>

\* Scheduler::new(..).start(); Ok(server_builder)
StartScheduler ==
    /\ boot.pc = "scheduler"
    /\ Step("scheduler_start", TRUE, FALSE, "run")
    /\ UNCHANGED <<store, inflight, last, issued>>

\* run_server: .workers(1).run()
RunServer ==
    \E ok \in BOOLEAN :
        /\ boot.pc = "run"
        /\ Step("run", ok, ~ok, "serving")
        /\ UNCHANGED <<store, inflight, last, issued>>

\* How a run that stops at pc is remembered.
outcome_of(pc) ==
    IF pc = "serving" THEN "completed"
    ELSE IF pc \in {"failed", "panicked"} THEN pc
    ELSE "killed"

\* The process ends: shutdown of a serving process, exit after an error or
\* a panic, or a kill at any step. Suspended handlers die with it.
StopProcess ==
    /\ boot.pc # "stopped"
    /\ boot' = [boot EXCEPT !.pc = "stopped",
                            !.outcomes = Append(@, outcome_of(boot.pc))]
    /\ inflight' = [s \in Slots |-> NoInvocation]
    /\ UNCHANGED <<store, last, issued>>

\* ------------------------------------------------- specification: commands
\* The store a completed start-up leaves on an empty backend.
BootstrappedStore ==
    [users |-> [u \in {AdminDn} |-> "Administrator"],
     passwords |-> {AdminDn},
     groups |-> [g \in 1..3 |-> BaselineGroups[g]],
     memberships |-> {<<AdminDn, 1>>},
     next_group_id |-> 4]

\* The same store after an admin has created bob, possibly as a second admin.
PopulatedStores ==
    { BootstrappedStore,
      [BootstrappedStore EXCEPT !.users = [u \in UserIds |->
                                   IF u = AdminDn THEN "Administrator" ELSE "Robert"]],
      [BootstrappedStore EXCEPT !.users = [u \in UserIds |->
                                   IF u = AdminDn THEN "Administrator" ELSE "Robert"],
                                !.memberships = {<<AdminDn, 1>>, <<"bob", 1>>}] }

\* The process of a completed first start-up; its step log is not kept.
ServingBoot ==
    BootRecord("serving", 1, MinPassLength, 4, {1}, <<>>, FALSE, <<>>, EmptyStore)

Init ==
    /\ store \in PopulatedStores
    /\ inflight = [s \in Slots |-> NoInvocation]
    /\ last = NoInvocation
    /\ issued = 0
    /\ boot = ServingBoot

Next ==
    \/ CreateUser
    \/ CreateUserFetch
    \/ CreateGroup
    \/ CreateGroupFetch
    \/ UpdateUser
    \/ UpdateGroup
    \/ AddUserToGroup
    \/ RemoveUserFromGroup
    \/ DeleteUser
    \/ DeleteGroup

Spec == Init /\ [][Next]_vars

\* ------------------------------------------------- specification: start-up
InitBoot ==
    /\ store = EmptyStore
    /\ inflight = [s \in Slots |-> NoInvocation]
    /\ last = NoInvocation
    /\ issued = 0
    /\ boot = BootRecord("stopped", 0, MinPassLength, 1, {}, <<>>, FALSE, <<>>, EmptyStore)

NextBoot ==
    \/ StartProcess
    \/ Connect
    \/ InitTable
    \/ EnsureGroupList
    \/ EnsureGroupCreate
    \/ GetAdminUser
    \/ CreateAdminUser
    \/ RegisterPassword
    \/ ListAdminGroup
    \/ AddAdminToGroup
    \/ BuildLdapServer
    \/ JwtInitTable
    \/ BuildTcpServer
    \/ StartScheduler
    \/ RunServer
    \/ StopProcess

SpecBoot == InitBoot /\ [][NextBoot]_vars

\* ------------------------------------------------- error kinds
UnauthorizedMessages ==
    {"Unauthorized user creation", "Unauthorized group creation",
     "Unauthorized user update", "Unauthorized group update",
     "Unauthorized group membership modification",
     "Unauthorized user deletion", "Unauthorized group deletion"}
InvariantMessages ==
    {"Cannot change admin group details", "Cannot remove admin rights for current user",
     "Cannot delete current user", "Cannot delete admin group"}
InvalidInputMessages == {"Invalid base64 image", "Provided image is not a valid JPEG"}
SuccessValues == {"Success", "User", "Group"}

Kind(result) ==
    IF result \in UnauthorizedMessages THEN "Unauthorized"
    ELSE IF result \in InvariantMessages THEN "InvariantViolation"
    ELSE IF result \in InvalidInputMessages THEN "InvalidInput"
    ELSE IF result = BackendError THEN "BackendFailure"
    ELSE IF result \in SuccessValues THEN "Ok"
    ELSE "none"

\* The message each command returns when its capability check fails.
DenialOf(cmd) ==
    CASE cmd = "create_user" -> "Unauthorized user creation"
      [] cmd = "create_group" -> "Unauthorized group creation"
      [] cmd = "update_user" -> "Unauthorized user update"
      [] cmd = "update_group" -> "Unauthorized group update"
      [] cmd \in {"add_user_to_group", "remove_user_from_group"} ->
             "Unauthorized group membership modification"
      [] cmd = "delete_user" -> "Unauthorized user deletion"
      [] cmd = "delete_group" -> "Unauthorized group deletion"
      [] OTHER -> "none"

\* The backend calls that change the store.
MutatingOps ==
    {"create_user", "create_group", "update_user", "update_group",
     "add_user_to_group", "remove_user_from_group", "delete_user", "delete_group"}
MutatingCalls(inv) == {i \in 1..Len(inv.calls) : inv.calls[i].op \in MutatingOps}

Returned(inv) == inv.cmd # "none" /\ inv.result # Pending
Suspended == {inflight[s] : s \in Slots} \ {NoInvocation}

\* The caller of inv fails the capability check of its command.
LacksCapability(inv) ==
    IF inv.cmd = "update_user"
    THEN ~inv.ctx.is_admin /\ inv.ctx.user # inv.user_id
    ELSE ~inv.ctx.is_admin

\* Exactly one backend call, op, was made, and the value returned is Success
\* when the backend accepted it.
OneCall(inv, op) ==
    /\ Len(inv.calls) = 1
    /\ inv.calls[1].op = op
    /\ inv.calls[1].ok => inv.result = "Success"

\* ------------------------------------------------- claims
\* C1: an invocation of any of the eight commands whose capability check
\* fails returns that command's Unauthorized error, has made no backend call
\* at all and has left the store unchanged; it is never found suspended
\* before a backend call.
C1_DeniedBeforeAnyBackendCall ==
    /\ Returned(last) /\ LacksCapability(last) =>
          /\ last.result = DenialOf(last.cmd)
          /\ Kind(last.result) = "Unauthorized"
          /\ last.calls = <<>>
          /\ ~last.changed
    /\ \A inv \in Suspended : ~LacksCapability(inv)

C1_Witness ==
    /\ Returned(last) /\ LacksCapability(last)
    /\ last.cmd = "add_user_to_group"
    /\ UserExists(store, last.user_id) /\ GroupExists(store, last.group_id)

\* C2 as stated: a principal removing itself from group 1 always gets the
\* InvariantViolation error, whatever its capability.
C2_Original ==
    (/\ Returned(last) /\ last.cmd = "remove_user_from_group"
     /\ last.user_id = last.ctx.user /\ last.group_id = AdminGroupId)
    => last.result = "Cannot remove admin rights for current user"

\* C2 (amended): a principal removing itself from group 1 always fails with
\* no backend call: with "Cannot remove admin rights for current user" when it
\* is an admin, with Unauthorized when it is not. An admin removing another
\* user from group 1 makes exactly one remove_user_from_group call and gets
\* Success when the backend accepts it.
C2_SelfDemotionRejected ==
    /\ (/\ Returned(last) /\ last.cmd = "remove_user_from_group"
        /\ last.user_id = last.ctx.user /\ last.group_id = AdminGroupId)
       => /\ last.calls = <<>>
          /\ ~last.changed
          /\ last.result = IF last.ctx.is_admin
                           THEN "Cannot remove admin rights for current user"
                           ELSE "Unauthorized group membership modification"
    /\ (/\ Returned(last) /\ last.cmd = "remove_user_from_group"
        /\ last.ctx.is_admin
        /\ last.user_id # last.ctx.user /\ last.group_id = AdminGroupId)
       => OneCall(last, "remove_user_from_group")

C2_Witness ==
    /\ Returned(last) /\ last.cmd = "remove_user_from_group"
    /\ last.ctx.is_admin /\ last.user_id = last.ctx.user /\ last.group_id = AdminGroupId
    /\ <<last.user_id, AdminGroupId>> \in store.memberships

\* C3: delete_user of the principal itself always fails, makes no backend
\* call and leaves the store (the principal's record included) as it was,
\* admin or not; delete_user by an admin on another user makes exactly one
\* delete_user call and returns Success when the backend accepts it.
C3_SelfDeletionRejected ==
    /\ (/\ Returned(last) /\ last.cmd = "delete_user" /\ last.user_id = last.ctx.user)
       => /\ Kind(last.result) \in {"Unauthorized", "InvariantViolation"}
          /\ last.ctx.is_admin => last.result = "Cannot delete current user"
          /\ last.calls = <<>>
          /\ ~last.changed
    /\ (/\ Returned(last) /\ last.cmd = "delete_user"
        /\ last.ctx.is_admin /\ last.user_id # last.ctx.user)
       => OneCall(last, "delete_user")

C3_Witness ==
    /\ Returned(last) /\ last.cmd = "delete_user"
    /\ last.ctx.is_admin /\ last.user_id = last.ctx.user
    /\ UserExists(store, last.user_id)

\* C4 as stated: update_group and delete_group on group 1 fail with the
\* InvariantViolation kind for any caller, admin or not.
C4_Original ==
    (/\ Returned(last) /\ last.cmd \in {"update_group", "delete_group"}
     /\ last.group_id = AdminGroupId)
    => Kind(last.result) = "InvariantViolation"

\* C4 (amended): update_group and delete_group on group 1 always fail with
\* no backend call: with "Cannot change admin group details" / "Cannot delete
\* admin group" for an admin caller, with Unauthorized for a non-admin caller.
C4_AdminGroupRejected ==
    (/\ Returned(last) /\ last.cmd \in {"update_group", "delete_group"}
     /\ last.group_id = AdminGroupId)
    => /\ last.calls = <<>>
       /\ ~last.changed
       /\ last.result =
            IF ~last.ctx.is_admin THEN DenialOf(last.cmd)
            ELSE IF last.cmd = "update_group" THEN "Cannot change admin group details"
            ELSE "Cannot delete admin group"

C4_Witness ==
    /\ Returned(last) /\ last.cmd = "update_group"
    /\ last.group_id = AdminGroupId /\ last.ctx.is_admin
    /\ GroupExists(store, AdminGroupId)

\* C5: update_user by a non-admin on another user's identifier fails with
\* Unauthorized and no backend call; by a non-admin on its own identifier,
\* with an absent or well-formed avatar, it makes exactly one update_user call
\* and returns Success when the backend accepts it. The gate denies exactly
\* when the target is not the principal and the principal is not an admin.
C5_UpdateUserGate ==
    Returned(last) /\ last.cmd = "update_user" =>
        /\ (~last.ctx.is_admin /\ last.user_id # last.ctx.user)
           => /\ last.result = "Unauthorized user update"
              /\ last.calls = <<>>
              /\ ~last.changed
        /\ (/\ ~last.ctx.is_admin /\ last.user_id = last.ctx.user
            /\ last.avatar \in {"none", "jpeg"})
           => OneCall(last, "update_user")
        /\ Kind(last.result) = "Unauthorized"
           <=> ~(last.user_id = last.ctx.user \/ last.ctx.is_admin)

C5_Witness ==
    /\ Returned(last) /\ last.cmd = "update_user"
    /\ ~last.ctx.is_admin /\ last.user_id = last.ctx.user
    /\ last.avatar = "jpeg" /\ last.result = "Success" /\ last.changed

\* C6: whatever commands have run, in whatever interleaving and by whatever
\* callers, group 1 exists and carries its initial display name, and no
\* update_group or delete_group aimed at group 1 has reached the backend.
C6_AdminGroupImmutable ==
    /\ GroupExists(store, AdminGroupId)
    /\ store.groups[AdminGroupId] = BaselineGroups[1]
    /\ (Returned(last) /\ last.cmd \in {"update_group", "delete_group"}
        /\ last.group_id = AdminGroupId) => MutatingCalls(last) = {}

C6_Witness ==
    /\ issued = MaxCmds
    /\ Returned(last) /\ last.cmd = "delete_group" /\ last.result = "Success"
    /\ ~GroupExists(store, 2)

\* C7: an invocation that returns its success value has made exactly one
\* mutating backend call, and that call succeeded; one rejected by the
\* capability check or by a protected-invariant rule has made none.
C7_OneMutationOnSuccess ==
    Returned(last) =>
        /\ Kind(last.result) = "Ok" =>
              /\ Cardinality(MutatingCalls(last)) = 1
              /\ \A i \in MutatingCalls(last) : last.calls[i].ok
        /\ Kind(last.result) \in {"Unauthorized", "InvariantViolation"} =>
              /\ MutatingCalls(last) = {}
              /\ ~last.changed

C7_Witness ==
    /\ Returned(last) /\ last.cmd = "create_user" /\ last.result = "User"
    /\ Len(last.calls) = 2 /\ last.changed

\* C8 as stated: an invocation that returns an error has applied no mutation
\* to the store, the two-call commands create_user and create_group included.
C8_Original ==
    Returned(last) /\ Kind(last.result) # "Ok" =>
        /\ ~last.changed
        /\ \A i \in MutatingCalls(last) : ~last.calls[i].ok
\* ------------------------------------------------- claims: start-up
CreatingOps == {"create_group", "create_user", "register_password", "add_user_to_group"}

GroupsNamed(db, name) == {g \in DOMAIN db.groups : db.groups[g] = name}

\* The run in progress is the second one, the first one ran to completion
\* on the empty store, and no step of the second has failed on a fault.
SecondRunAfterCompletedFirst ==
    /\ boot.run = 2
    /\ boot.outcomes = <<"completed">>
    /\ ~boot.faulted

\* C9: a second start-up on the store a completed first start-up left (first
\* start on an empty store, backend and collaborators answering the second
\* run's calls without a failure of their own) issues no create_group,
\* create_user, register_password or add_user_to_group call, ends in no error
\* or panic, and leaves the store as it found it: one group named lldap_admin
\* and the one admin user.
C9_BootstrapIdempotent ==
    SecondRunAfterCompletedFirst =>
        /\ \A i \in 1..Len(boot.calls) : boot.calls[i].op \notin CreatingOps
        /\ boot.pc \notin {"failed", "panicked"}
        /\ store = boot.started_from
        /\ Cardinality(GroupsNamed(store, "lldap_admin")) = 1
        /\ DOMAIN store.users = {AdminDn}

C9_Witness ==
    /\ SecondRunAfterCompletedFirst
    /\ boot.pc = "serving"

\* The state start-up is to establish.
ConsistentStore(db) ==
    /\ \A i \in 1..Len(BaselineGroups) : GroupsNamed(db, BaselineGroups[i]) # {}
    /\ UserExists(db, AdminDn)
    /\ AdminDn \in db.passwords
    /\ \E g \in GroupsNamed(db, "lldap_admin") : <<AdminDn, g>> \in db.memberships

\* C10 as stated: whatever earlier aborted runs left in the store, a start-up
\* that completes without error leaves the three baseline groups and an admin
\* user that has a credential and is a member of the administrators group.
C10_Original ==
    boot.pc = "serving" => ConsistentStore(store)

\* Some step of the current run made the call op / made it with outcome ok.
Attempted(op) == \E i \in 1..Len(boot.calls) : boot.calls[i].op = op
Made(op, ok) == \E i \in 1..Len(boot.calls) : boot.calls[i] = Call(op, ok)

ShortPass == boot.run >= 1 /\ boot.pass_len < MinPassLength

\* C11 as stated: with a bootstrap credential shorter than 8 characters the
\* process never starts serving and never attempts create_user or
\* register_password, whether the admin user is absent or present.
C11_Original ==
    ShortPass =>
        /\ boot.pc # "serving"
        /\ ~Attempted("create_user")
        /\ ~Attempted("register_password")

\* C11 (amended): with a bootstrap credential shorter than 8 characters no
\* create_user and no register_password is ever attempted, whatever the store
\* held before; when the admin user is not found the length assertion panics
\* before create_user and the process never serves; the process serves only
\* when the admin user was found, in which case the assertion is not reached.
C11_ShortPassNeverRegistered ==
    ShortPass =>
        /\ ~Attempted("create_user")
        /\ ~Attempted("register_password")
        /\ store.passwords = boot.started_from.passwords
        /\ Made("get_user_details", FALSE) => boot.pc \in {"create_admin", "panicked", "stopped"}
        /\ boot.pc = "serving" => Made("get_user_details", TRUE)

C11_Witness ==
    /\ ShortPass
    /\ boot.pc = "panicked"
    /\ ~UserExists(store, AdminDn)

\* The place in the run's log of the first call op (0 when there is none).
FirstAttempt(op) ==
    IF Attempted(op)
    THEN CHOOSE i \in 1..Len(boot.calls) :
            /\ boot.calls[i].op = op
            /\ \A j \in 1..(i - 1) : boot.calls[j].op # op
    ELSE 0

\* Step b is reached only after step a.
Before(a, b) == Attempted(b) => Attempted(a) /\ FirstAttempt(a) < FirstAttempt(b)

\* The steps both orders agree on: schema, baseline groups, admin user, and
\* at the end both listeners, the maintenance task, the run.
CommonOrder ==
    /\ Before("connect", "init_table")
    /\ Before("init_table", "list_groups")
    /\ Before("list_groups", "get_user_details")
    /\ Attempted("get_user_details") =>
          Cardinality({i \in 1..FirstAttempt("get_user_details") :
                          boot.calls[i] = Call("list_groups", TRUE)}) = Len(BaselineGroups)
    /\ Before("get_user_details", "create_user")
    /\ Before("create_user", "register_password")
    /\ Before("register_password", "add_user_to_group")
    /\ Before("build_ldap_server", "build_tcp_server")
    /\ Before("build_tcp_server", "scheduler_start")
    /\ Before("scheduler_start", "run")

\* C12 as stated: the auxiliary token/session schema is initialised after the
\* admin user step and before the directory listener is bound.
C12_Original ==
    /\ CommonOrder
    /\ Before("get_user_details", "jwt_init_table")
    /\ Before("jwt_init_table", "build_ldap_server")

\* C12 (amended): start-up runs its steps strictly in the order directory
\* schema init, baseline groups, admin user, bind of the directory listener,
\* auxiliary token/session schema init, bind of the administrative API
\* listener, start of the maintenance task, run of the server.
C12_StepOrder ==
    /\ CommonOrder
    /\ Before("get_user_details", "build_ldap_server")
    /\ Attempted("create_user") /\ Attempted("build_ldap_server") =>
          /\ Attempted("add_user_to_group")
          /\ FirstAttempt("add_user_to_group") < FirstAttempt("build_ldap_server")
    /\ Before("build_ldap_server", "jwt_init_table")
    /\ Before("jwt_init_table", "build_tcp_server")

C12_Witness ==
    /\ boot.pc = "serving"
    /\ Attempted("create_user")
    /\ Made("jwt_init_table", TRUE)

\* The current (or just ended) run was aborted by an error or a panic.
Aborted ==
    \/ boot.pc \in {"failed", "panicked"}
    \/ /\ boot.pc = "stopped" /\ boot.outcomes # <<>>
       /\ boot.outcomes[Len(boot.outcomes)] \in {"failed", "panicked"}

\* C13: a step that fails before the server run (connection, schema init, a
\* baseline group, admin user creation, auxiliary schema init, either bind) is
\* the last step of its run: nothing is executed after it, the maintenance
\* task is not started and the server is not run; the maintenance task and
\* the server run are reached only with both listeners bound.
C13_FailureAbortsStartup ==
    /\ \A i \in 1..Len(boot.calls) :
          (~boot.calls[i].ok /\ boot.calls[i].op # "get_user_details") =>
              /\ i = Len(boot.calls)
              /\ Aborted
              /\ boot.calls[i].op # "run" =>
                    ~Attempted("scheduler_start") /\ ~Attempted("run")
    /\ (Aborted /\ ~Attempted("run")) => ~Attempted("scheduler_start")
    /\ (Attempted("scheduler_start") \/ Attempted("run") \/ boot.pc = "serving") =>
          /\ Made("build_ldap_server", TRUE)
          /\ Made("build_tcp_server", TRUE)
          /\ Made("jwt_init_table", TRUE)
          /\ Made("init_table", TRUE)

C13_Witness ==
    /\ boot.pc = "failed"
    /\ Made("build_ldap_server", TRUE)
    /\ Made("build_tcp_server", FALSE)

\* C14: what a caller that fails the capability check is told depends on the
\* command alone: whatever the avatar (absent, bad base64, not a JPEG, valid),
\* whether the target is group 1 or the caller itself, and whatever the store
\* holds, the value returned is the command's one Unauthorized message; an
\* avatar error or a protected-invariant error is returned only to a caller
\* that passed the capability check.
C14_DenialDependsOnCommandOnly ==
    Returned(last) =>
        /\ LacksCapability(last) => last.result = DenialOf(last.cmd)
        /\ Kind(last.result) \in {"InvalidInput", "InvariantViolation"} =>
              ~LacksCapability(last)
        /\ (last.cmd = "update_user" /\ Kind(last.result) = "InvalidInput") =>
              (last.ctx.is_admin \/ last.ctx.user = last.user_id)
        /\ (last.cmd # "update_user" /\ Kind(last.result) # "Unauthorized") =>
              last.ctx.is_admin

C14_Witness ==
    /\ Returned(last) /\ last.cmd = "update_user"
    /\ LacksCapability(last)
    /\ last.avatar = "bad_base64"
    /\ ~UserExists(store, last.user_id)

\* The number of backend calls a command makes at most.
MaxCallsOf(cmd) == IF cmd \in {"create_user", "create_group"} THEN 2 ELSE 1

\* The call log of an invocation is that of a strictly sequential handler.
SequentialCalls(inv) ==
    /\ Len(inv.calls) <= MaxCallsOf(inv.cmd)
    /\ \A i \in 1..Len(inv.calls) : ~inv.calls[i].ok => i = Len(inv.calls)
    /\ Len(inv.calls) = 2 =>
          /\ inv.calls[1] = Call(inv.cmd, TRUE)
          /\ inv.calls[2].op =
                IF inv.cmd = "create_user" THEN "get_user_details" ELSE "get_group_details"

\* C15: for a caller that passes the capability check, an avatar that fails
\* base64 or JPEG validation yields InvalidInput with no backend call; the
\* re-fetch of create_user / create_group is issued only after the create
\* call returned success (and while suspended between the two the handler has
\* made that one call only); a backend call that returns an error is the last
\* call of its invocation, which ends with that error: no retry, no further
\* call.
C15_SequentialPhases ==
    /\ Returned(last) =>
          /\ SequentialCalls(last)
          /\ (/\ last.cmd \in {"create_user", "update_user"}
              /\ ~LacksCapability(last)
              /\ last.avatar \in {"bad_base64", "not_jpeg"})
             => /\ last.result = IF last.avatar = "bad_base64"
                                 THEN "Invalid base64 image"
                                 ELSE "Provided image is not a valid JPEG"
                /\ last.calls = <<>>
                /\ ~last.changed
          /\ (\E i \in 1..Len(last.calls) : ~last.calls[i].ok) <=> last.result = BackendError
    /\ \A inv \in Suspended :
          /\ inv.cmd \in {"create_user", "create_group"}
          /\ inv.calls = <<Call(inv.cmd, TRUE)>>

C15_Witness ==
    /\ Returned(last) /\ last.cmd = "create_group"
    /\ last.calls = <<Call("create_group", TRUE), Call("get_group_details", FALSE)>>
    /\ last.result = BackendError

\* ------------------------------------------------- specification: one command at a time
\* The invocation a step has just issued: returned already, or suspended.
NewInvocation ==
    IF last'.seq = issued + 1 THEN last' ELSE inflight'[issued + 1]

\* The capability of a principal as the store has it: membership in group 1.
IsAdminNow(db, u) == <<u, AdminGroupId>> \in db.memberships

\* A command starts only when none is suspended, and its context carries the
\* caller's membership in group 1 at that moment.
Sequential ==
    issued' = issued + 1 =>
        /\ Suspended = {}
        /\ NewInvocation.ctx.is_admin = IsAdminNow(store, NewInvocation.ctx.user)

NextSeq ==
    \/ CreateUser /\ Sequential
    \/ CreateUserFetch /\ Sequential
    \/ CreateGroup /\ Sequential
    \/ CreateGroupFetch /\ Sequential
    \/ UpdateUser /\ Sequential
    \/ UpdateGroup /\ Sequential
    \/ AddUserToGroup /\ Sequential
    \/ RemoveUserFromGroup /\ Sequential
    \/ DeleteUser /\ Sequential
    \/ DeleteGroup /\ Sequential

SpecSeq == Init /\ [][NextSeq]_vars

AdminGroupMembers(db) == {u \in DOMAIN db.users : IsAdminNow(db, u)}

\* C16: with commands run one at a time, each under a context that carries
\* the caller's membership in group 1 at its start, and group 1 non-empty at
\* the start, some existing user is a member of group 1 in every state.
C16_NoLockoutSequential ==
    AdminGroupMembers(store) # {}

C16_Witness ==
    /\ Returned(last) /\ last.cmd = "remove_user_from_group"
    /\ last.group_id = AdminGroupId /\ last.result = "Success"
    /\ Cardinality(AdminGroupMembers(store)) = 1

\* ------------------------------------------------- specification: overlapping requests
\* A request enters: its capability context is computed, once, from the
\* caller's membership in group 1, and the handler is yet to run.
Entered(cmd, principal, user_id, group_id) ==
    Invocation(issued + 1, cmd,
               [user |-> principal, is_admin |-> IsAdminNow(store, principal)],
               user_id, group_id, NoAvatar, <<>>, FALSE, Pending)

EnterRemoveUserFromGroup ==
    \E p \in UserIds, u \in UserIds, g \in GroupIds :
        /\ CanIssue
        /\ inflight' = [inflight EXCEPT ![issued + 1] =
              Entered("remove_user_from_group", p, u, g)]
        /\ issued' = issued + 1
        /\ UNCHANGED <<store, last, boot>>

EnterDeleteUser ==
    \E p \in UserIds, u \in UserIds :
        /\ CanIssue
        /\ inflight' = [inflight EXCEPT ![issued + 1] =
              Entered("delete_user", p, u, 0)]
        /\ issued' = issued + 1
        /\ UNCHANGED <<store, last, boot>>

\* The handler of an entered request runs, under the context of its entry.
RunRemoveUserFromGroup ==
    \E s \in Slots, fault \in BOOLEAN :
        /\ Serving
        /\ inflight[s].cmd = "remove_user_from_group"
        /\ Finish(s, remove_user_from_group(inflight[s].ctx, inflight[s].user_id,
                                            inflight[s].group_id, store, fault))

RunDeleteUser ==
    \E s \in Slots, fault \in BOOLEAN :
        /\ Serving
        /\ inflight[s].cmd = "delete_user"
        /\ Finish(s, delete_user(inflight[s].ctx, inflight[s].user_id, store, fault))

NextConc ==
    \/ EnterRemoveUserFromGroup
    \/ EnterDeleteUser
    \/ RunRemoveUserFromGroup
    \/ RunDeleteUser

SpecConc == Init /\ [][NextConc]_vars

\* C17 as stated: with requests of different principals overlapping, each
\* under the context computed at its entry, and group 1 non-empty at the
\* start, no interleaving of remove_user_from_group and delete_user leaves
\* group 1 without an existing member.
C17_Original ==
    AdminGroupMembers(store) # {}

\* ------------------------------------- specification: start-up and commands
\* Commands a serving process accepts over its lifetimes, all runs together.
MaxServed == 4

\* The context of a request of an existing user p, as the store has it.
Principal(db, p) == [user |-> p, is_admin |-> IsAdminNow(db, p)]

\* A whole handler that takes effect on the store. Handlers that leave the
\* store as it is reach no new store and are not counted.
Served(r) ==
    /\ Serving
    /\ issued < MaxServed
    /\ r.db # store
    /\ store' = r.db
    /\ issued' = issued + 1
    /\ UNCHANGED <<inflight, last, boot>>

\* create_user and create_group with their re-fetch, when the create succeeded.
create_user(ctx, u, n, a, db) ==
    LET r == create_user_begin(ctx, u, n, a, db, FALSE) IN
    IF r.result = Pending THEN create_user_fetch(u, r.db, FALSE) ELSE r

create_group(ctx, n, db) ==
    LET r == create_group_begin(ctx, n, db, FALSE) IN
    IF r.result = Pending THEN create_group_fetch(db.next_group_id, r.db, FALSE) ELSE r

ServeCreateUser ==
    \E p \in DOMAIN store.users, u \in UserIds, n \in UserDisplayNames :
        Served(create_user(Principal(store, p), u, n, NoAvatar, store))

ServeCreateGroup ==
    \E p \in DOMAIN store.users, n \in GroupNameInputs :
        Served(create_group(Principal(store, p), n, store))

ServeUpdateUser ==
    \E p \in DOMAIN store.users, u \in UserIds, n \in UserDisplayNames :
        Served(update_user(Principal(store, p), u, n, NoAvatar, store, FALSE))

ServeUpdateGroup ==
    \E p \in DOMAIN store.users, g \in GroupIds, n \in GroupNameInputs :
        Served(update_group(Principal(store, p), g, n, store, FALSE))

ServeAddUserToGroup ==
    \E p \in DOMAIN store.users, u \in UserIds, g \in GroupIds :
        Served(add_user_to_group(Principal(store, p), u, g, store, FALSE))

ServeRemoveUserFromGroup ==
    \E p \in DOMAIN store.users, u \in UserIds, g \in GroupIds :
        Served(remove_user_from_group(Principal(store, p), u, g, store, FALSE))

ServeDeleteUser ==
    \E p \in DOMAIN store.users, u \in UserIds :
        Served(delete_user(Principal(store, p), u, store, FALSE))

ServeDeleteGroup ==
    \E p \in DOMAIN store.users, g \in GroupIds :
        Served(delete_group(Principal(store, p), g, store, FALSE))

NextAll ==
    \/ StartProcess
    \/ Connect
    \/ InitTable
    \/ EnsureGroupList
    \/ EnsureGroupCreate
    \/ GetAdminUser
    \/ CreateAdminUser
    \/ RegisterPassword
    \/ ListAdminGroup
    \/ AddAdminToGroup
    \/ BuildLdapServer
    \/ JwtInitTable
    \/ BuildTcpServer
    \/ StartScheduler
    \/ RunServer
    \/ StopProcess
    \/ ServeCreateUser
    \/ ServeCreateGroup
    \/ ServeUpdateUser
    \/ ServeUpdateGroup
    \/ ServeAddUserToGroup
    \/ ServeRemoveUserFromGroup
    \/ ServeDeleteUser
    \/ ServeDeleteGroup

SpecAll == InitBoot /\ [][NextAll]_vars

\* The lookup of lldap_admin inside create_admin_user has returned.
AtGroupAssertion ==
    /\ boot.pc \in {"add_admin", "panicked"}
    /\ Attempted("register_password")

\* C18 as stated: whenever create_admin_user has looked up the groups named
\* lldap_admin, it has found exactly one, so assert_eq!(groups.len(), 1)
\* does not fail, in any store reachable from the empty one by start-up
\* runs and mutation commands.
C18_Original ==
    AtGroupAssertion => one_group_found(boot.found)

\* C19: from the empty store, through start-up runs and mutation commands,
\* as soon as the store has a group, the group with id 1 exists and is named
\* lldap_admin; and the group start-up adds the admin user to (groups[0].id
\* of the lookup by name) is the group with id 1.
C19_AdminGroupIsGroupOne ==
    /\ DOMAIN store.groups # {} =>
          /\ GroupExists(store, AdminGroupId)
          /\ store.groups[AdminGroupId] = "lldap_admin"
    /\ boot.pc = "add_admin" => first_group(boot.found) = AdminGroupId
    /\ boot.pc = "build_ldap" /\ Made("add_user_to_group", TRUE) =>
          <<AdminDn, AdminGroupId>> \in store.memberships

\* A second run re-creates the admin user, deleted by another admin, and is
\* about to add it to the group found by name, in a store that also holds a
\* group created by a command.
C19_Witness ==
    /\ boot.run = 2
    /\ boot.pc = "add_admin"
    /\ issued > 0
    /\ GroupExists(store, 4)

====
